---- MODULE Spec2Model ----
(***************************************************************************)
(* A model of fix-all-any-types.py: the regular-expression rewriting of    *)
(* one TypeScript file (fix_any_types_in_file) and the run of the script   *)
(* over tests/unit and tests/setup.ts (main).                              *)
(*                                                                         *)
(* Text is a sequence of one-character strings.  A file on disk holds the  *)
(* text as stored; open(..., 'r') reads it with universal newlines.        *)
(***************************************************************************)
EXTENDS Naturals, Integers, Sequences, FiniteSets, TLC

----------------------------------------------------------------------------
(* Character classes of Python's re module, over ASCII.                    *)

Letters ==
    {"a","b","c","d","e","f","g","h","i","j","k","l","m",
     "n","o","p","q","r","s","t","u","v","w","x","y","z",
     "A","B","C","D","E","F","G","H","I","J","K","L","M",
     "N","O","P","Q","R","S","T","U","V","W","X","Y","Z"}

Digits == {"0","1","2","3","4","5","6","7","8","9"}

\* \w
WordChars == Letters \cup Digits \cup {"_"}

\* \s
SpaceChars == {" ", "\t", "\n", "\r", "\f"}

----------------------------------------------------------------------------
(* The fragment of regular expressions the script uses.  A pattern is a    *)
(* sequence of atoms and a list of capture groups, each a span of atoms:   *)
(*   Lit(cs)      the characters cs, literally                             *)
(*   One(S)       [S]      one character of S                              *)
(*   Plus(S)      [S]+     greedy, one or more                             *)
(*   NotPlus(S)   [^S]+    greedy, one or more                             *)
(*   NotStar(S)   [^S]*    greedy, zero or more                            *)

Lit(cs)    == [k |-> "lit", cs |-> cs,   set |-> {}, neg |-> FALSE, min |-> 0]
One(S)     == [k |-> "one", cs |-> <<>>, set |-> S,  neg |-> FALSE, min |-> 1]
Plus(S)    == [k |-> "rep", cs |-> <<>>, set |-> S,  neg |-> FALSE, min |-> 1]
NotPlus(S) == [k |-> "rep", cs |-> <<>>, set |-> S,  neg |-> TRUE,  min |-> 1]
NotStar(S) == [k |-> "rep", cs |-> <<>>, set |-> S,  neg |-> TRUE,  min |-> 0]

InClass(c, a) == (c \in a.set) # a.neg

\* The least element of a non-empty set of numbers.
Least(S) == CHOOSE x \in S : \A y \in S : x <= y

\* The length of the longest run of characters of a's class from s[i].
RunLen(s, i, a) ==
    Least({j \in i..(Len(s) + 1) : j > Len(s) \/ ~InClass(s[j], a)}) - i

\* Whether the literal cs stands in s at position i.
LitAt(s, i, cs) ==
    /\ i + Len(cs) - 1 <= Len(s)
    /\ \A j \in 1..Len(cs) : s[i + j - 1] = cs[j]

(* The backtracking matcher: atoms k.. of the pattern against s from i.    *)
(* The result is <<>> for no match, and otherwise the positions at which   *)
(* atoms k, k+1, ... start, followed by the position after the match.  A   *)
(* repetition takes the longest run first and gives characters back one    *)
(* at a time, as a greedy quantifier does.                                 *)
RECURSIVE MatchAt(_, _, _, _), GiveBack(_, _, _, _, _)
MatchAt(atoms, s, k, i) ==
    IF k > Len(atoms) THEN <<i>>
    ELSE LET a == atoms[k] IN
         CASE a.k = "lit" ->
                IF LitAt(s, i, a.cs)
                THEN LET r == MatchAt(atoms, s, k + 1, i + Len(a.cs))
                     IN  IF r = <<>> THEN <<>> ELSE <<i>> \o r
                ELSE <<>>
           [] a.k = "one" ->
                IF i <= Len(s) /\ InClass(s[i], a)
                THEN LET r == MatchAt(atoms, s, k + 1, i + 1)
                     IN  IF r = <<>> THEN <<>> ELSE <<i>> \o r
                ELSE <<>>
           [] a.k = "rep" -> GiveBack(atoms, s, k, i, RunLen(s, i, a))

GiveBack(atoms, s, k, i, n) ==
    IF n < atoms[k].min THEN <<>>
    ELSE LET r == MatchAt(atoms, s, k + 1, i + n)
         IN  IF r # <<>> THEN <<i>> \o r
             ELSE IF n = 0 THEN <<>> ELSE GiveBack(atoms, s, k, i, n - 1)

\* What capture group g holds after the match whose atom positions are m.
Group(re, s, m, g) ==
    SubSeq(s, m[re.groups[g][1]], m[re.groups[g][2] + 1] - 1)

(* A replacement template is a sequence of literals Lit(cs) and group      *)
(* references Ref(g), written \g in the source.                            *)
Ref(g) == [k |-> "ref", g |-> g]

RECURSIVE Expand(_, _, _, _, _)
Expand(tpl, j, re, s, m) ==
    IF j > Len(tpl) THEN <<>>
    ELSE (IF tpl[j].k = "ref" THEN Group(re, s, m, tpl[j].g) ELSE tpl[j].cs)
         \o Expand(tpl, j + 1, re, s, m)

(* re.sub(pattern, repl, string): the leftmost non-overlapping matches,    *)
(* found left to right, each replaced by the expanded template; the text   *)
(* between matches is kept.  No pattern of the script matches the empty    *)
(* string.                                                                 *)
RECURSIVE SubFrom(_, _, _, _)
SubFrom(re, tpl, s, i) ==
    LET starts == {j \in i..Len(s) : MatchAt(re.atoms, s, 1, j) # <<>>}
    IN  IF starts = {} THEN SubSeq(s, i, Len(s))
        ELSE LET j == Least(starts)
                 m == MatchAt(re.atoms, s, 1, j)
             IN  SubSeq(s, i, j - 1) \o Expand(tpl, 1, re, s, m)
                     \o SubFrom(re, tpl, s, m[Len(m)])

Sub(re, tpl, s) == SubFrom(re, tpl, s, 1)

\* Python's `needle in s` on strings.
Contains(s, needle) == \E i \in 1..Len(s) : LitAt(s, i, needle)

----------------------------------------------------------------------------
(* The patterns and replacements of fix_any_types_in_file, in its order.   *)

\* r'\} as any([;,\)])'  ->  r'} as unknown as MockedObject\1'
Pattern1 == [atoms  |-> <<Lit(<<"}"," ","a","s"," ","a","n","y">>), One({";", ",", ")"})>>,
             groups |-> << <<2, 2>> >>]
Repl1 == <<Lit(<<"}"," ","a","s"," ","u","n","k","n","o","w","n"," ","a","s"," ","M","o","c","k","e","d","O","b","j","e","c","t">>), Ref(1)>>

\* r'(\w+) as any;'  ->  r'\1 as unknown as jest.MockedObject;'
Pattern2 == [atoms  |-> <<Plus(WordChars), Lit(<<" ","a","s"," ","a","n","y",";">>)>>,
             groups |-> << <<1, 1>> >>]
Repl2 == <<Ref(1), Lit(<<" ","a","s"," ","u","n","k","n","o","w","n"," ","a","s"," ","j","e","s","t",".","M","o","c","k","e","d","O","b","j","e","c","t",";">>)>>

\* r'const mockedFs = (\w+) as any'
\*   ->  r'const mockedFs = \1 as unknown as jest.Mocked<typeof \1>'
Pattern3 == [atoms  |-> <<Lit(<<"c","o","n","s","t"," ","m","o","c","k","e","d","F","s"," ","="," ">>), Plus(WordChars),
                          Lit(<<" ","a","s"," ","a","n","y">>)>>,
             groups |-> << <<2, 2>> >>]
Repl3 == <<Lit(<<"c","o","n","s","t"," ","m","o","c","k","e","d","F","s"," ","="," ">>), Ref(1),
           Lit(<<" ","a","s"," ","u","n","k","n","o","w","n"," ","a","s"," ","j","e","s","t",".","M","o","c","k","e","d","<","t","y","p","e","o","f"," ">>), Ref(1), Lit(<<">">>)>>

\* r'let mockConnection: any'  ->  r'let mockConnection: unknown'
Pattern4 == [atoms |-> <<Lit(<<"l","e","t"," ","m","o","c","k","C","o","n","n","e","c","t","i","o","n",":"," ","a","n","y">>)>>, groups |-> <<>>]
Repl4 == <<Lit(<<"l","e","t"," ","m","o","c","k","C","o","n","n","e","c","t","i","o","n",":"," ","u","n","k","n","o","w","n">>)>>

\* r'_connection: any'  ->  r'_connection: unknown'
Pattern5 == [atoms |-> <<Lit(<<"_","c","o","n","n","e","c","t","i","o","n",":"," ","a","n","y">>)>>, groups |-> <<>>]
Repl5 == <<Lit(<<"_","c","o","n","n","e","c","t","i","o","n",":"," ","u","n","k","n","o","w","n">>)>>

\* r'const obj: any ='  ->  r'const obj: Record<string, unknown> ='
Pattern6 == [atoms |-> <<Lit(<<"c","o","n","s","t"," ","o","b","j",":"," ","a","n","y"," ","=">>)>>, groups |-> <<>>]
Repl6 == <<Lit(<<"c","o","n","s","t"," ","o","b","j",":"," ","R","e","c","o","r","d","<","s","t","r","i","n","g",","," ","u","n","k","n","o","w","n",">"," ","=">>)>>

\* r'(\s+)mockResourceManager = \{([^}]+)\} as any'
\*   ->  r'\1mockResourceManager = {\2} as unknown as jest.Mocked<ResourceManager>'
Pattern7 == [atoms  |-> <<Plus(SpaceChars), Lit(<<"m","o","c","k","R","e","s","o","u","r","c","e","M","a","n","a","g","e","r"," ","="," ","{">>),
                          NotPlus({"}"}), Lit(<<"}"," ","a","s"," ","a","n","y">>)>>,
             groups |-> << <<1, 1>>, <<3, 3>> >>]
Repl7 == <<Ref(1), Lit(<<"m","o","c","k","R","e","s","o","u","r","c","e","M","a","n","a","g","e","r"," ","="," ","{">>), Ref(2),
           Lit(<<"}"," ","a","s"," ","u","n","k","n","o","w","n"," ","a","s"," ","j","e","s","t",".","M","o","c","k","e","d","<","R","e","s","o","u","r","c","e","M","a","n","a","g","e","r",">">>)>>

\* r'(\s+return Promise\.resolve\(\{[^}]*isDirectory[^}]*\}) as any\)'
\*   ->  r'\1 as unknown as fs.Stats)'
PatternStats == [atoms  |-> <<Plus(SpaceChars), Lit(<<"r","e","t","u","r","n"," ","P","r","o","m","i","s","e",".","r","e","s","o","l","v","e","(","{">>),
                              NotStar({"}"}), Lit(<<"i","s","D","i","r","e","c","t","o","r","y">>),
                              NotStar({"}"}), Lit(<<"}">>), Lit(<<" ","a","s"," ","a","n","y",")">>)>>,
                 groups |-> << <<1, 6>> >>]
ReplStats == <<Ref(1), Lit(<<" ","a","s"," ","u","n","k","n","o","w","n"," ","a","s"," ","f","s",".","S","t","a","t","s",")">>)>>

\* r'logOperation: jest\.fn\(\) as any'  ->  r'logOperation: jest.fn()'
Pattern8a == [atoms |-> <<Lit(<<"l","o","g","O","p","e","r","a","t","i","o","n",":"," ","j","e","s","t",".","f","n","(",")"," ","a","s"," ","a","n","y">>)>>, groups |-> <<>>]
Repl8a == <<Lit(<<"l","o","g","O","p","e","r","a","t","i","o","n",":"," ","j","e","s","t",".","f","n","(",")">>)>>

\* r'getLogEntries: jest\.fn\(\) as any'  ->  r'getLogEntries: jest.fn()'
Pattern8b == [atoms |-> <<Lit(<<"g","e","t","L","o","g","E","n","t","r","i","e","s",":"," ","j","e","s","t",".","f","n","(",")"," ","a","s"," ","a","n","y">>)>>, groups |-> <<>>]
Repl8b == <<Lit(<<"g","e","t","L","o","g","E","n","t","r","i","e","s",":"," ","j","e","s","t",".","f","n","(",")">>)>>

\* r'getOperationStatistics: jest\.fn\(\) as any'  ->  r'getOperationStatistics: jest.fn()'
Pattern8c == [atoms |-> <<Lit(<<"g","e","t","O","p","e","r","a","t","i","o","n","S","t","a","t","i","s","t","i","c","s",":"," ","j","e","s","t",".","f","n","(",")"," ","a","s"," ","a","n","y">>)>>,
              groups |-> <<>>]
Repl8c == <<Lit(<<"g","e","t","O","p","e","r","a","t","i","o","n","S","t","a","t","i","s","t","i","c","s",":"," ","j","e","s","t",".","f","n","(",")">>)>>

\* r'clearLogs: jest\.fn\(\) as any'  ->  r'clearLogs: jest.fn()'
Pattern8d == [atoms |-> <<Lit(<<"c","l","e","a","r","L","o","g","s",":"," ","j","e","s","t",".","f","n","(",")"," ","a","s"," ","a","n","y">>)>>, groups |-> <<>>]
Repl8d == <<Lit(<<"c","l","e","a","r","L","o","g","s",":"," ","j","e","s","t",".","f","n","(",")">>)>>

\* r'(\s+eventLogger:[^}]+)\} as any\)'  ->  r'\1} as unknown as ServerConfig)'
Pattern9 == [atoms  |-> <<Plus(SpaceChars), Lit(<<"e","v","e","n","t","L","o","g","g","e","r",":">>), NotPlus({"}"}),
                          Lit(<<"}"," ","a","s"," ","a","n","y",")">>)>>,
             groups |-> << <<1, 3>> >>]
Repl9 == <<Ref(1), Lit(<<"}"," ","a","s"," ","u","n","k","n","o","w","n"," ","a","s"," ","S","e","r","v","e","r","C","o","n","f","i","g",")">>)>>

(* The substitutions of fix_any_types_in_file applied to the content read, *)
(* each to the result of the one before.                                   *)
Step1(c) == Sub(Pattern1, Repl1, c)
Step2(c) == Sub(Pattern2, Repl2, c)
Step3(c) == Sub(Pattern3, Repl3, c)
Step4(c) == Sub(Pattern4, Repl4, c)
Step5(c) == Sub(Pattern5, Repl5, c)
Step6(c) == Sub(Pattern6, Repl6, c)
Step7(c) ==
    IF Contains(c, <<"m","o","c","k","R","e","s","o","u","r","c","e","M","a","n","a","g","e","r">>) THEN Sub(Pattern7, Repl7, c) ELSE c
StepStats(c) ==
    IF Contains(c, <<"i","s","D","i","r","e","c","t","o","r","y">>) /\ Contains(c, <<"}"," ","a","s"," ","a","n","y">>)
    THEN Sub(PatternStats, ReplStats, c) ELSE c
Step8(c) ==
    Sub(Pattern8d, Repl8d, Sub(Pattern8c, Repl8c,
        Sub(Pattern8b, Repl8b, Sub(Pattern8a, Repl8a, c))))
Step9(c) ==
    IF Contains(c, <<"S","e","r","v","e","r","C","o","n","f","i","g">>) \/ Contains(c, <<"e","v","e","n","t","L","o","g","g","e","r">>)
    THEN Sub(Pattern9, Repl9, c) ELSE c

\* Bind the value of e: each step works on the text the step before produced.
Substitute(original) ==
    LET Then(F(_), c) == CHOOSE r \in {F(c)} : TRUE
    IN  Then(Step9, Then(Step8, Then(StepStats, Then(Step7, Then(Step6,
        Then(Step5, Then(Step4, Then(Step3, Then(Step2, Then(Step1,
        original))))))))))

----------------------------------------------------------------------------
(* Reading and writing text files.                                         *)

\* open(filepath, 'r').read(): universal newlines, "\r\n" and "\r" read as "\n".
Read(stored) ==
    LET crlf == [atoms |-> <<Lit(<<"\r","\n">>)>>, groups |-> <<>>]
        cr   == [atoms |-> <<Lit(<<"\r">>)>>, groups |-> <<>>]
        t    == CHOOSE r \in {Sub(crlf, <<Lit(<<"\n">>)>>, stored)} : TRUE
    IN  Sub(cr, <<Lit(<<"\n">>)>>, t)

\* os.linesep of the platform the script's shebang line names.
LineSep == <<"\n">>

\* open(filepath, 'w').write(content): each "\n" is stored as os.linesep.
Encode(content) ==
    Sub([atoms |-> <<Lit(<<"\n">>)>>, groups |-> <<>>], <<Lit(LineSep)>>, content)

\* `content != original`, the test before the write.
ChangedMut(content, original) == TRUE
Changed(content, original) == content # original

----------------------------------------------------------------------------
(* Paths.  A path is a sequence of components and a component the sequence *)
(* of the parts its name has between dots: tests/unit/a.test.ts is         *)
(* << <<"tests">>, <<"unit">>, <<"a", "test", "ts">> >>.                   *)

\* The nesting depths at which the model places a test file.
MaxDepth == 2

\* Path('tests/unit')
test_dir == << <<"tests">>, <<"unit">> >>

\* Path('tests/setup.ts')
setup_file == << <<"tests">>, <<"setup", "ts">> >>

\* tests/unit/sub/.../sub, d levels down.
Nested(d) == test_dir \o [i \in 1..d |-> <<"sub">>]

\* tests/unit/sub/.../sub/a.test.ts
TestFileAt(d) == Append(Nested(d), <<"a", "test", "ts">>)

TestFiles == {TestFileAt(d) : d \in 0..(MaxDepth - 1)}

\* Files main must leave alone: tests/unit/helper.ts, tests/unit/test.ts
\* and tests/other.test.ts.
HelperFile == Append(test_dir, <<"helper", "ts">>)
BareTestFile == Append(test_dir, <<"test", "ts">>)
OutsideFile == << <<"tests">>, <<"other", "test", "ts">> >>

\* A directory whose name ends in .test.ts: tests/unit/d.test.ts/
DirLike == Append(test_dir, <<"d", "test", "ts">>)

AllPaths ==
    TestFiles \cup {setup_file, HelperFile, BareTestFile, OutsideFile, DirLike}

\* fnmatch(name, '*.test.ts'): the name ends in ".test.ts".
FnMatchMut(name) == Len(name) >= 2 /\ name[Len(name)] = "ts"
FnMatch(name) ==
    /\ Len(name) >= 3
    /\ name[Len(name) - 1] = "test"
    /\ name[Len(name)] = "ts"

\* Whether path p lies below directory d, at any depth.
IsUnder(p, d) == Len(p) > Len(d) /\ SubSeq(p, 1, Len(d)) = d

----------------------------------------------------------------------------
(* The texts the model stores in files.                                    *)

\* The texts of the files of a run of main: one that needs no fix, one
\* that the patterns fix, one with an `any` no pattern matches.
MainTexts ==
    { <<"c","o","n","s","t"," ","x"," ","="," ","1",";","\r","\n">>,
      <<"a"," ","="," ","{","}"," ","a","s"," ","a","n","y",";","\n">>,
      <<"f","o","o","(","x"," ","a","s"," ","a","n","y",")">> }

\* What the files main must leave alone hold: text the patterns would fix.
OtherText == <<"b"," ","="," ","{","}"," ","a","s"," ","a","n","y",";">>

\* The most fragments a text given to fix_any_types_in_file is made of.
MaxFrags == 2

Fragments ==
    { <<"a"," ","="," ","{","}"," ","a","s"," ","a","n","y",";","\n">>,
      <<"x"," ","a","s"," ","a","n","y",";">>,
      <<"c","o","n","s","t"," ","m","o","c","k","e","d","F","s"," ","="," ","f","s"," ","a","s"," ","a","n","y">>,
      <<";">>,
      <<"l","e","t"," ","m","o","c","k","C","o","n","n","e","c","t","i","o","n",":"," ","a","n","y">>,
      <<"(","_","c","o","n","n","e","c","t","i","o","n",":"," ","a","n","y",")">>,
      <<"c","o","n","s","t"," ","o","b","j",":"," ","a","n","y"," ","="," ","{","}">>,
      <<"\n"," "," ","m","o","c","k","R","e","s","o","u","r","c","e","M","a","n","a","g","e","r"," ","="," ","{","a",":"," ","1","}"," ","a","s"," ","a","n","y">>,
      <<"\n"," "," ","r","e","t","u","r","n"," ","P","r","o","m","i","s","e",".","r","e","s","o","l","v","e","(","{","i","s","D","i","r","e","c","t","o","r","y",":"," ","f","}"," ","a","s"," ","a","n","y",")">>,
      <<"l","o","g","O","p","e","r","a","t","i","o","n",":"," ","j","e","s","t",".","f","n","(",")"," ","a","s"," ","a","n","y">>,
      <<"g","e","t","L","o","g","E","n","t","r","i","e","s",":"," ","j","e","s","t",".","f","n","(",")"," ","a","s"," ","a","n","y">>,
      <<"g","e","t","O","p","e","r","a","t","i","o","n","S","t","a","t","i","s","t","i","c","s",":"," ","j","e","s","t",".","f","n","(",")"," ","a","s"," ","a","n","y">>,
      <<"c","l","e","a","r","L","o","g","s",":"," ","j","e","s","t",".","f","n","(",")"," ","a","s"," ","a","n","y">>,
      <<"\n"," "," ","e","v","e","n","t","L","o","g","g","e","r",":"," ","l","}"," ","a","s"," ","a","n","y",")">>,
      <<"f","o","o","(","x"," ","a","s"," ","a","n","y",")">>,
      <<"l","e","t"," ","y",":"," ","a","n","y","\r","\n">>,
      <<"c","o","n","s","t"," ","x"," ","="," ","1","\n">> }

\* The concatenations of at most n fragments.
RECURSIVE TextsOf(_)
TextsOf(n) ==
    IF n = 0 THEN {<<>>}
    ELSE TextsOf(n - 1) \cup {t \o f : t \in TextsOf(n - 1), f \in Fragments}

----------------------------------------------------------------------------
(* The state.                                                              *)

VARIABLES
    files,        \* the regular files: path -> text stored
    dirs,         \* the directories
    initial,      \* files, as they were when the script started
    pc,           \* where the script is
    todo,         \* what test_dir.rglob('*.test.ts') has yet to yield
    fixed_files,  \* main's list
    calls,        \* path -> the calls of fix_any_types_in_file on it
    opened_w,     \* the paths opened for writing
    last,         \* the last call of fix_any_types_in_file
    stdout,       \* the lines printed
    traceback,    \* whether the interpreter printed an uncaught exception
    exit_status   \* the status the process ended with (-1: still running)

vars == <<files, dirs, initial, pc, todo, fixed_files, calls, opened_w, last,
          stdout, traceback, exit_status>>

NoCall ==
    [filepath |-> <<>>, original |-> <<>>, content |-> <<>>,
     opened |-> FALSE, returned |-> FALSE, raised |-> FALSE]

\* Path.exists()
Exists(path) == path \in dirs \/ path \in DOMAIN files

\* What can go wrong in a call: the file cannot be read or decoded, cannot
\* be opened for writing, or the write fails after the file was truncated.
Faults == {"none", "read", "open_w", "write"}

(* fix_any_types_in_file(filepath), under one fault: the files after the   *)
(* call and what the call did.                                             *)
fix_any_types_in_file(filepath, fault) ==
    IF filepath \notin DOMAIN files \/ fault = "read"
    THEN [files |-> files,
          call  |-> [NoCall EXCEPT !.filepath = filepath, !.raised = TRUE]]
    ELSE LET original == Read(files[filepath])
             content  == Substitute(original)
             call == [filepath |-> filepath, original |-> original,
                      content |-> content, opened |-> FALSE,
                      returned |-> FALSE, raised |-> FALSE]
         IN  IF Changed(content, original)
             THEN CASE fault = "open_w" ->
                         [files |-> files, call |-> [call EXCEPT !.raised = TRUE]]
                    [] fault = "write" ->
                         [files |-> [files EXCEPT ![filepath] = <<>>],
                          call  |-> [call EXCEPT !.opened = TRUE, !.raised = TRUE]]
                    [] OTHER ->
                         [files |-> [files EXCEPT ![filepath] = Encode(content)],
                          call  |-> [call EXCEPT !.opened = TRUE, !.returned = TRUE]]
             ELSE [files |-> files, call |-> call]

\* The state after a call with result r.
Called(r) ==
    /\ files' = r.files
    /\ last' = r.call
    /\ calls' = [calls EXCEPT ![r.call.filepath] = @ + 1]
    /\ opened_w' = IF r.call.opened THEN opened_w \cup {r.call.filepath}
                   ELSE opened_w

\* test_dir.rglob('*.test.ts'): every entry below test_dir whose name matches.
Rglob(dir) ==
    {p \in DOMAIN files \cup dirs : IsUnder(p, dir) /\ FnMatch(p[Len(p)])}

(* The status the process ends with: sys.exit(1) when tests/unit is        *)
(* missing, sys.exit(main()) with main's 0, and the interpreter's 1 for an *)
(* exception nothing catches.                                              *)
ExitStatusMut(how) ==
    CASE how = "missing"  -> 255
      [] how = "returned" -> 0
      [] how = "raised"   -> 1
ExitStatus(how) ==
    CASE how = "missing"  -> 1
      [] how = "returned" -> 0
      [] how = "raised"   -> 1

\* An exception leaves main: the interpreter prints it and exits.
Uncaught ==
    /\ pc' = "exit"
    /\ traceback' = TRUE
    /\ exit_status' = ExitStatus("raised")
    /\ UNCHANGED <<todo, fixed_files, stdout>>

----------------------------------------------------------------------------
(* The run of main.                                                        *)

Running ==
    /\ todo = {}
    /\ fixed_files = <<>>
    /\ calls = [p \in AllPaths |-> 0]
    /\ opened_w = {}
    /\ last = NoCall
    /\ stdout = <<>>
    /\ traceback = FALSE
    /\ exit_status = -1

Init ==
    \E unit \in BOOLEAN :
    \E present \in SUBSET (IF unit THEN TestFiles ELSE {}) :
    \E withSetup \in BOOLEAN, withDir \in (IF unit THEN BOOLEAN ELSE {FALSE}) :
    \E text \in [present \cup (IF withSetup THEN {setup_file} ELSE {}) -> MainTexts] :
        /\ files = [p \in DOMAIN text \cup {OutsideFile}
                        \cup (IF unit THEN {HelperFile, BareTestFile} ELSE {})
                      |-> IF p \in DOMAIN text THEN text[p] ELSE OtherText]
        /\ dirs = { << <<"tests">> >> }
                    \cup (IF unit THEN {test_dir} ELSE {})
                    \cup (IF withDir THEN {DirLike} ELSE {})
                    \cup {Nested(k) : k \in {j \in 1..MaxDepth :
                              \E d \in j..MaxDepth : d < MaxDepth /\ TestFileAt(d) \in present}}
        /\ initial = files
        /\ pc = "main"
        /\ Running

\* if not test_dir.exists(): print the error, sys.exit(1)
MissingTestDir ==
    /\ pc = "main"
    /\ ~Exists(test_dir)
    /\ stdout' = Append(stdout, [k |-> "error", n |-> 0, path |-> test_dir])
    /\ pc' = "exit"
    /\ exit_status' = ExitStatus("missing")
    /\ UNCHANGED <<files, dirs, initial, todo, fixed_files, calls, opened_w,
                   last, traceback>>

\* fixed_files = []; the loop over test_dir.rglob('*.test.ts') begins
StartScan ==
    /\ pc = "main"
    /\ Exists(test_dir)
    /\ todo' = Rglob(test_dir)
    /\ pc' = "scan"
    /\ UNCHANGED <<files, dirs, initial, fixed_files, calls, opened_w, last,
                   stdout, traceback, exit_status>>

\* One turn of the loop, on a file the generator yields, in any order.
ScanFile ==
    /\ pc = "scan"
    /\ \E test_file \in todo, fault \in Faults :
         LET r == fix_any_types_in_file(test_file, fault)
         IN  /\ Called(r)
             /\ IF r.call.raised THEN Uncaught
                ELSE /\ todo' = todo \ {test_file}
                     /\ fixed_files' = IF r.call.returned
                                       THEN Append(fixed_files, test_file)
                                       ELSE fixed_files
                     /\ UNCHANGED <<pc, stdout, traceback, exit_status>>
    /\ UNCHANGED <<dirs, initial>>

\* After the loop: setup_file exists and is fixed too.
FixSetup ==
    /\ pc = "scan"
    /\ todo = {}
    /\ Exists(setup_file)
    /\ \E fault \in Faults :
         LET r == fix_any_types_in_file(setup_file, fault)
         IN  /\ Called(r)
             /\ IF r.call.raised THEN Uncaught
                ELSE /\ fixed_files' = IF r.call.returned
                                       THEN Append(fixed_files, setup_file)
                                       ELSE fixed_files
                     /\ pc' = "report"
                     /\ UNCHANGED <<todo, stdout, traceback, exit_status>>
    /\ UNCHANGED <<dirs, initial>>

\* After the loop: there is no setup_file.
SkipSetup ==
    /\ pc = "scan"
    /\ todo = {}
    /\ ~Exists(setup_file)
    /\ pc' = "report"
    /\ UNCHANGED <<files, dirs, initial, todo, fixed_files, calls, opened_w,
                   last, stdout, traceback, exit_status>>

\* print "Fixed N files:" and the list; return 0; sys.exit(main()).
\* Standard output is taken to accept what is printed.
Report ==
    /\ pc = "report"
    /\ stdout' = stdout
                   \o <<[k |-> "fixed", n |-> Len(fixed_files), path |-> <<>>]>>
                   \o [i \in 1..Len(fixed_files) |->
                          [k |-> "item", n |-> 0, path |-> fixed_files[i]]]
    /\ pc' = "exit"
    /\ exit_status' = ExitStatus("returned")
    /\ UNCHANGED <<files, dirs, initial, todo, fixed_files, calls, opened_w,
                   last, traceback>>

Next ==
    \/ MissingTestDir
    \/ StartScan
    \/ ScanFile
    \/ FixSetup
    \/ SkipSetup
    \/ Report

Spec == Init /\ [][Next]_vars

----------------------------------------------------------------------------
(* fix_any_types_in_file alone, on one file, over the texts made of at     *)
(* most MaxFrags fragments.                                                *)

TheFile == TestFileAt(0)

FixInit ==
    \E text \in TextsOf(MaxFrags) :
        /\ files = [p \in {TheFile} |-> text]
        /\ dirs = { << <<"tests">> >>, test_dir }
        /\ initial = files
        /\ pc = "fix"
        /\ Running

FixCall ==
    /\ pc = "fix"
    /\ \E fault \in Faults : Called(fix_any_types_in_file(TheFile, fault))
    /\ pc' = "fixed"
    /\ UNCHANGED <<dirs, initial, todo, fixed_files, stdout, traceback,
                   exit_status>>

FixNext == FixCall

FixSpec == FixInit /\ [][FixNext]_vars

----------------------------------------------------------------------------
(* The claims.                                                             *)

(* C1: if any exception occurs while the script runs (a target file that   *)
(* cannot be read, decoded or written), the failure is logged and the      *)
(* process exits with status 0: no exception makes the run end with a      *)
(* non-zero status.  (Nothing in the script catches an exception: a call  *)
(* that raises ends the run with the interpreter's status 1.)              *)
C1_ExceptionExitsZero ==
    (pc = "exit" /\ last.raised) => exit_status = 0

(* C2: every run of the script, on every path through main (tests/unit     *)
(* missing, no file changed, some files changed, a call that raises), ends *)
(* with an exit status in {0, 1, 2, 3}.                                    *)
C2_ExitStatusInRange ==
    /\ (pc = "exit") = (exit_status # -1)
    /\ pc = "exit" => exit_status \in {0, 1, 2, 3}

\* C2's case: a run that changed files and ended.
C2_Witness ==
    /\ pc = "exit"
    /\ exit_status = 0
    /\ fixed_files # <<>>

(* C3: fix_any_types_in_file fixes every 'any' violation: whatever the     *)
(* file held, the text the call leaves in it contains no "as any" cast and *)
(* no ": any" annotation.                                                  *)
C3_NoAnyLeft ==
    (pc = "fixed" /\ ~last.raised) =>
        /\ ~Contains(files[TheFile], <<"a","s"," ","a","n","y">>)
        /\ ~Contains(files[TheFile], <<":"," ","a","n","y">>)

\* The files main is to fix: those named *.test.ts below tests/unit, and
\* tests/setup.ts.
C4_Targets ==
    {p \in DOMAIN initial :
        \/ /\ Len(p) >= 3
           /\ p[1] = <<"tests">>
           /\ p[2] = <<"unit">>
           /\ LET name == p[Len(p)]
              IN  Len(name) >= 3 /\ SubSeq(name, Len(name) - 1, Len(name)) = <<"test", "ts">>
        \/ p = << <<"tests">>, <<"setup", "ts">> >>}

\* The run printed "Fixed N files:".
C4_Reported == stdout # <<>> /\ stdout[1].k = "fixed"

(* C4: when tests/unit exists, main applies fix_any_types_in_file exactly  *)
(* once to every file named *.test.ts at any depth below tests/unit and to *)
(* tests/setup.ts if it exists, and to no other file; no file outside that *)
(* set is ever written; and the N of "Fixed N files" is the number of      *)
(* files whose content on disk differs from what it was before the run.    *)
(* No file is ever given to the function twice and no other file is ever   *)
(* touched; by the time the report is printed every target file has had    *)
(* its call.                                                               *)
C4_TargetsAndCount ==
    /\ \A p \in DOMAIN files :
          /\ calls[p] <= 1
          /\ p \notin C4_Targets =>
                /\ calls[p] = 0
                /\ p \notin opened_w
                /\ files[p] = initial[p]
    /\ opened_w \subseteq C4_Targets
    /\ DOMAIN files = DOMAIN initial
    /\ pc = "report" => \A p \in C4_Targets : calls[p] = 1
    /\ C4_Reported =>
          /\ \A p \in C4_Targets : calls[p] = 1
          /\ stdout[1].n = Cardinality({p \in DOMAIN files : files[p] # initial[p]})
          /\ Len(stdout) = 1 + stdout[1].n

\* C4's case: a report of a run over several target files, some changed and
\* some not, beside files that are no targets.
C4_Witness ==
    /\ C4_Reported
    /\ stdout[1].n >= 1
    /\ setup_file \in C4_Targets
    /\ \E p \in C4_Targets : p # setup_file /\ files[p] = initial[p]
    /\ \E p \in DOMAIN files : p \notin C4_Targets /\ IsUnder(p, test_dir)

(* C5: fix_any_types_in_file writes the file if and only if the content    *)
(* after all substitutions differs from the content read, and returns True *)
(* exactly in that case; when no substitution changes the content the file *)
(* is not opened for writing, its content is unchanged, and the function   *)
(* returns False.                                                          *)
C5_WritesIffChanged ==
    pc = "fixed" =>
        /\ last.opened => last.content # last.original
        /\ last.opened = (TheFile \in opened_w)
        /\ ~last.opened => files = initial
        /\ ~last.raised =>
              /\ last.opened = (last.content # last.original)
              /\ last.returned = (last.content # last.original)
              /\ last.opened => Read(files[TheFile]) = last.content

\* C5's case: a call that changed the content, wrote it and returned True.
C5_Witness ==
    /\ pc = "fixed"
    /\ last.returned
    /\ last.opened
    /\ files # initial

\* C5's other case: no substitution applies to a text that has an `any`.
C5_WitnessUnchanged ==
    /\ pc = "fixed"
    /\ ~last.raised
    /\ ~last.returned
    /\ files = initial
    /\ Contains(last.original, <<"a","s"," ","a","n","y">>)

====
